---- MODULE Spec2Model ----
(***************************************************************************)
(* Model of src/tasks.py: the module-level parse cache _cache and the two  *)
(* functions task1 (exact-match lookup) and task2 (weighted average).      *)
(*                                                                         *)
(* A Python str is a sequence of one-character strings.  A table text is   *)
(* the sequence of records csv.reader yields for it (first record = the    *)
(* header); a record is a sequence of raw, unnormalised fields.  Python's  *)
(* None is the value None below.  A query is a function from column names  *)
(* to query values; a query value is an int or a str.                      *)
(***************************************************************************)
EXTENDS Integers, Sequences, FiniteSets, TLC

VARIABLES
    _cache,     \* _cache: table text -> parsed rows
    parses,     \* observer: table text -> number of times the parser ran on it
    last        \* the most recent call: its arguments, whether it found its
                \* text in the cache, and its outcome

vars == <<_cache, parses, last>>

(***************************************************************************)
(* Bounds                                                                  *)
(***************************************************************************)
MaxRows    == 2     \* data records of a generated table text
MaxQueries == 2     \* length of a task2 search_list
MaxParses  == 2     \* parser runs observed per text

(***************************************************************************)
(* Python values                                                           *)
(***************************************************************************)
None == <<"None">>

Digits == <<"0", "1", "2", "3", "4", "5", "6", "7", "8", "9">>

Whitespace == {" ", "\t"}

Quotes == {"'", "\""}

VALUE == <<"v", "a", "l", "u", "e">>

IntVal(n) == [t |-> "int", i |-> n, s |-> <<>>]

StrVal(x) == [t |-> "str", i |-> 0, s |-> x]

RECURSIVE NatToStr(_)
NatToStr(n) ==
    IF n < 10 THEN <<Digits[n + 1]>>
    ELSE NatToStr(n \div 10) \o <<Digits[(n % 10) + 1]>>

\* str(v) of a query value
Str(v) ==
    IF v.t = "int"
    THEN IF v.i < 0 THEN <<"-">> \o NatToStr(-v.i) ELSE NatToStr(v.i)
    ELSE v.s

RECURSIVE LStrip(_, _)
LStrip(s, chars) ==
    IF s # <<>> /\ Head(s) \in chars THEN LStrip(Tail(s), chars) ELSE s

RECURSIVE RStrip(_, _)
RStrip(s, chars) ==
    IF s # <<>> /\ s[Len(s)] \in chars
    THEN RStrip(SubSeq(s, 1, Len(s) - 1), chars)
    ELSE s

\* str.strip(chars)
Strip(s, chars) == RStrip(LStrip(s, chars), chars)

\* v.strip().strip("'\"") if v is not None else v
Clean(v) == IF v # None THEN Strip(Strip(v, Whitespace), Quotes) ELSE v

DigitValue(c) == CHOOSE d \in 0..9 : Digits[d + 1] = c

IsDigit(c) == \E d \in 1..10 : Digits[d] = c

\* the digits-and-underscores body of an int literal: single underscores
\* between digits only
IsIntBody(b) ==
    /\ b # <<>>
    /\ \A k \in 1..Len(b) : IsDigit(b[k]) \/ b[k] = "_"
    /\ IsDigit(b[1]) /\ IsDigit(b[Len(b)])
    /\ \A k \in 1..(Len(b) - 1) : ~(b[k] = "_" /\ b[k + 1] = "_")

RECURSIVE BodyValue(_, _)
BodyValue(b, acc) ==
    IF b = <<>> THEN acc
    ELSE IF Head(b) = "_" THEN BodyValue(Tail(b), acc)
    ELSE BodyValue(Tail(b), 10 * acc + DigitValue(Head(b)))

\* int(v): [exc |-> "" and n |-> the integer] or the exception raised
PyInt(v) ==
    IF v = None THEN [exc |-> "TypeError", n |-> 0]
    ELSE LET w    == Strip(v, Whitespace)
             sgn  == w # <<>> /\ Head(w) \in {"-", "+"}
             body == IF sgn THEN Tail(w) ELSE w
         IN IF ~IsIntBody(body) THEN [exc |-> "ValueError", n |-> 0]
            ELSE IF sgn /\ Head(w) = "-"
                 THEN [exc |-> "", n |-> -BodyValue(body, 0)]
                 ELSE [exc |-> "", n |-> BodyValue(body, 0)]

(***************************************************************************)
(* Parsing: csv.DictReader plus the cleaning comprehension                 *)
(***************************************************************************)
Range(f) == {f[k] : k \in DOMAIN f}

\* dict(zip(fieldnames, row)), then restval None for the fields the record
\* lacks (csv.DictReader.__next__)
DictRow(fieldnames, rec) ==
    [key \in Range(fieldnames) |->
        LET k == CHOOSE j \in 1..Len(fieldnames) :
                    /\ fieldnames[j] = key
                    /\ \A m \in (j + 1)..Len(fieldnames) : fieldnames[m] # key
        IN IF k <= Len(rec) THEN rec[k] ELSE None]

CleanRow(row) == [key \in DOMAIN row |-> Clean(row[key])]

NotBlank(rec) == rec # <<>>

\* drops the fields beyond the header instead of raising
ParseTextTruncate(data) ==
    IF data = <<>> THEN [exc |-> "", rows |-> <<>>]
    ELSE LET fieldnames == Head(data)
             recs       == SelectSeq(Tail(data), NotBlank)
         IN [exc |-> "",
             rows |-> [k \in 1..Len(recs) |->
                          CleanRow(DictRow(fieldnames, recs[k]))]]

\* The parse loop.  A record longer than the header gets the key None bound
\* to a list, and list.strip raises AttributeError before anything is cached.
ParseText(data) ==
    IF data = <<>> THEN [exc |-> "", rows |-> <<>>]
    ELSE LET fieldnames == Head(data)
             recs       == SelectSeq(Tail(data), NotBlank)
         IN IF \E k \in 1..Len(recs) : Len(recs[k]) > Len(fieldnames)
            THEN [exc |-> "AttributeError", rows |-> <<>>]
            ELSE [exc |-> "",
                  rows |-> [k \in 1..Len(recs) |->
                               CleanRow(DictRow(fieldnames, recs[k]))]]

(***************************************************************************)
(* Outcome of a call: a returned str (or None), or a raised exception      *)
(***************************************************************************)
Ret(v) == [exc |-> "", val |-> v]

Raise(e) == [exc |-> e, val |-> <<>>]

NOT_FOUND == <<"-", "1">>

ZERO == <<"0", ".", "0">>

(***************************************************************************)
(* task1 after the rows are obtained (lines 38-58)                         *)
(***************************************************************************)
\* set(rows[0].keys()) - {'value'}
KeyFields(rows) == DOMAIN rows[1] \ {VALUE}

\* accepts a query that lacks key columns
KeyMismatchSubset(search_keys, key_fields) ==
    ~(search_keys \subseteq key_fields)

\* search_keys != key_fields
KeyMismatch(search_keys, key_fields) == search_keys # key_fields

\* all(row[key] == str(search[key]) for key in search_keys)
RowMatches(row, search) ==
    \A key \in DOMAIN search : row[key] = Str(search[key])

\* returns the last matching row's value instead of the first's
ScanRowsLast(rows, search, k) ==
    LET m == {j \in k..Len(rows) : RowMatches(rows[j], search)}
    IN IF m = {} THEN Ret(NOT_FOUND)
       ELSE Ret(rows[CHOOSE j \in m : \A x \in m : x <= j][VALUE])

\* for row in rows: ... return row['value']; return '-1'
RECURSIVE ScanRows(_, _, _)
ScanRows(rows, search, k) ==
    IF k > Len(rows) THEN Ret(NOT_FOUND)
    ELSE IF RowMatches(rows[k], search) THEN Ret(rows[k][VALUE])
    ELSE ScanRows(rows, search, k + 1)

\* validates the keys before looking at the number of rows
LookupValidateFirst(search, rows) ==
    IF KeyMismatch(DOMAIN search,
                   IF rows = <<>> THEN {} ELSE KeyFields(rows))
    THEN Raise("Key mismatch")
    ELSE IF rows = <<>> THEN Ret(NOT_FOUND)
    ELSE ScanRows(rows, search, 1)

Lookup(search, rows) ==
    IF rows = <<>> THEN Ret(NOT_FOUND)
    ELSE IF KeyMismatch(DOMAIN search, KeyFields(rows))
         THEN Raise("Key mismatch")
         ELSE ScanRows(rows, search, 1)

(***************************************************************************)
(* task2 after the rows are obtained (lines 113-149)                       *)
(***************************************************************************)
\* {k: str(v) for k, v in search.items()}
Prepare(search) == [key \in DOMAIN search |-> Str(search[key])]

\* the same weight for every value
WeightFlat(val) == 10

\* 20 if val % 2 == 0 else 10
Weight(val) == IF val % 2 = 0 THEN 20 ELSE 10

\* for key in key_names: the keys come in the set's iteration order, and
\* search[key] raises KeyError when the query lacks the key
RECURSIVE KeyLoop(_, _, _)
KeyLoop(row, search, order) ==
    IF order = <<>> THEN "match"
    ELSE IF Head(order) \notin DOMAIN search THEN "KeyError"
    ELSE IF row[Head(order)] # search[Head(order)] THEN "nomatch"
    ELSE KeyLoop(row, search, Tail(order))

\* for row in rows: the first matching row, converted with int()
RECURSIVE RowLoop(_, _, _, _)
RowLoop(rows, search, order, k) ==
    IF k > Len(rows) THEN [exc |-> "", hit |-> FALSE, n |-> 0]
    ELSE LET m == KeyLoop(rows[k], search, order)
         IN IF m = "KeyError" THEN [exc |-> "KeyError", hit |-> FALSE, n |-> 0]
            ELSE IF m = "match"
                 THEN LET v == PyInt(rows[k][VALUE])
                      IN [exc |-> v.exc, hit |-> TRUE, n |-> v.n]
                 ELSE RowLoop(rows, search, order, k + 1)

\* for search in prepared_search_list: accumulate both totals
RECURSIVE SearchLoop(_, _, _, _, _, _)
SearchLoop(prepared, rows, order, j, total_weighted_value, total_weight) ==
    IF j > Len(prepared)
    THEN [exc |-> "", twv |-> total_weighted_value, tw |-> total_weight]
    ELSE LET r == RowLoop(rows, prepared[j], order, 1)
         IN IF r.exc # ""
            THEN [exc |-> r.exc, twv |-> total_weighted_value,
                  tw |-> total_weight]
            ELSE IF r.hit
                 THEN SearchLoop(prepared, rows, order, j + 1,
                                 total_weighted_value + r.n * Weight(r.n),
                                 total_weight + Weight(r.n))
                 ELSE SearchLoop(prepared, rows, order, j + 1,
                                 total_weighted_value, total_weight)

\* truncates the second decimal instead of rounding
RoundTenthsDown(num, den) == (10 * num) \div den

\* round(10 * num / den) to the nearest integer, ties to even (den > 0)
RoundTenths(num, den) ==
    LET q == (10 * num) \div den
        r == (10 * num) % den
    IN IF 2 * r < den THEN q
       ELSE IF 2 * r > den THEN q + 1
       ELSE IF q % 2 = 0 THEN q ELSE q + 1

\* f"{num / den:.1f}".  The quotient is a double; it is formatted from its
\* exact value, which rounds as the rational does unless the rational is an
\* odd multiple of 1/20 that no double represents (den a multiple of 200).
Format1f(num, den) ==
    LET t == RoundTenths(num, den)
        m == IF t < 0 THEN -t ELSE t
    IN (IF num < 0 THEN <<"-">> ELSE <<>>)
       \o NatToStr(m \div 10) \o <<".">> \o <<Digits[(m % 10) + 1]>>

\* the orders in which a set can be iterated
Orders(S) == {o \in [1..Cardinality(S) -> S] : Range(o) = S}

Aggregate(search_list, rows, order) ==
    IF rows = <<>> THEN Ret(ZERO)
    ELSE LET prepared == [j \in 1..Len(search_list) |->
                             Prepare(search_list[j])]
             acc == SearchLoop(prepared, rows, order, 1, 0, 0)
         IN IF acc.exc # "" THEN Raise(acc.exc)
            ELSE IF acc.tw = 0 THEN Ret(ZERO)
            ELSE Ret(Format1f(acc.twv, acc.tw))

(***************************************************************************)
(* The cache (lines 23-36 and 98-111)                                      *)
(***************************************************************************)
\* never finds a text
CacheHitNever(c, data) == FALSE

\* data in _cache
CacheHit(c, data) == data \in DOMAIN c

\* keeps only the newest entry
CacheStoreEvict(c, data, p) ==
    IF p.exc = "" THEN [d \in {data} |-> p.rows] ELSE c

\* _cache[data] = rows, reached only when the parse loop did not raise
CacheStore(c, data, p) ==
    IF p.exc = ""
    THEN [d \in DOMAIN c \cup {data} |-> IF d = data THEN p.rows ELSE c[d]]
    ELSE c

ParseCount(data) == IF data \in DOMAIN parses THEN parses[data] ELSE 0

\* the rows of a call and the cache it leaves, with the parser runs counted
Obtain(data, p) ==
    /\ CacheHit(_cache, data) \/ ParseCount(data) < MaxParses
    /\ _cache' = IF CacheHit(_cache, data) THEN _cache
                 ELSE CacheStore(_cache, data, p)
    /\ parses' = IF CacheHit(_cache, data) THEN parses
                 ELSE [d \in DOMAIN parses \cup {data} |->
                          IF d = data THEN ParseCount(data) + 1
                          ELSE parses[d]]

Rows(data) ==
    IF CacheHit(_cache, data) THEN [exc |-> "", rows |-> _cache[data]]
    ELSE ParseText(data)

task1(search, data) ==
    LET p == Rows(data)
    IN /\ Obtain(data, p)
       /\ last' = [op |-> "task1", search |-> <<search>>, data |-> data,
                   hit |-> CacheHit(_cache, data),
                   out |-> IF p.exc # "" THEN Raise(p.exc)
                           ELSE Lookup(search, p.rows)]

task2(search_list, data) ==
    LET p == Rows(data)
        orders == IF p.exc = "" /\ p.rows # <<>>
                  THEN Orders(KeyFields(p.rows)) ELSE {<<>>}
    IN /\ Obtain(data, p)
       /\ \E order \in orders :
            last' = [op |-> "task2", search |-> search_list, data |-> data,
                     hit |-> CacheHit(_cache, data),
                     out |-> IF p.exc # "" THEN Raise(p.exc)
                             ELSE Aggregate(search_list, p.rows, order)]

Init ==
    /\ _cache = <<>>
    /\ parses = <<>>
    /\ last = [op |-> "none", search |-> <<>>, data |-> <<>>,
               hit |-> FALSE, out |-> Ret(<<>>)]

(***************************************************************************)
(* Inputs                                                                  *)
(***************************************************************************)
A == <<"a">>

B == <<"b">>

HeaderA == <<A, VALUE>>

HeaderAB == <<A, B, VALUE>>

c1 == <<"1">>

c2 == <<"2">>

c3 == <<"3">>

c4 == <<"4">>

c10 == <<"1", "0">>

c15 == <<"1", "5">>

\* the query {key: value, ...} over the keys ks
Query(ks, qa, qb) == [key \in ks |-> IF key = A THEN qa ELSE qb]

\* all lists of at most n elements of S
Lists(S, n) == UNION {[1..m -> S] : m \in 0..n}

\* "a,b,value\n1,2,10\n3,4,15\n", the table of task2's docstring
DocTable == <<HeaderAB, <<c1, c2, c10>>, <<c3, c4, c15>>>>

DocSearchList ==
    <<Query({A, B}, IntVal(1), IntVal(2)), Query({A, B}, IntVal(3), IntVal(4))>>

HeaderOnly == <<HeaderA>>

ShortRow == <<HeaderA, <<c1, c10>>, <<c1>>>>

LongRow == <<HeaderA, <<c1, c10>>, <<c1, c15, c2>>>>

Texts == {DocTable, HeaderOnly, ShortRow, LongRow}

Searches == Range(DocSearchList) \cup {Query({A}, IntVal(1), IntVal(1))}

Call1 == \E data \in Texts : \E search \in Searches : task1(search, data)

Call2 ==
    \E data \in Texts :
        \E search_list \in Lists(Searches, MaxQueries) :
            task2(search_list, data)

Next == Call1 \/ Call2

Spec == Init /\ [][Next]_vars

(***************************************************************************)
(* One table text per run, drawn from generated texts; the later calls of  *)
(* the run reuse that text (now cached) and the queries of the last call.  *)
(***************************************************************************)
\* Every header follows the input format: distinct column names, one of them
\* 'value'.  Fields come padded ("2 "), quoted ('4'), non-numeric and
\* negative; records come blank, short (value or key missing) and long.
KeyCells == {c1, <<"2", " ">>}

ValueCells == {c10, c15, <<"'", "4", "'">>, <<"x">>, <<"-", "3">>}

\* records under the header a,value: well-formed, blank, short and long
RecordsA ==
    {<<k, v>> : k \in KeyCells, v \in ValueCells}
        \cup {<<>>, <<c1>>, <<c1, c10, c2>>}

\* records under the header a,b,value
RecordsAB ==
    {<<c1, c2, c10>>, <<c1, c2, <<"x">>>>, <<c2, c2, c15>>, <<c1, c2>>, <<c1>>}

TextsOf(header, records) ==
    {<<header>> \o body : body \in Lists(records, MaxRows)}

FnTexts ==
    {<<>>} \cup TextsOf(HeaderA, RecordsA) \cup TextsOf(HeaderAB, RecordsAB)

FnSearches ==
    {Query(ks, qa, IntVal(2)) : ks \in SUBSET {A, B},
                                qa \in {IntVal(1), StrVal(c2)}}

Started == last.op # "none"

FnCall1 ==
    \E data \in (IF Started THEN {last.data} ELSE FnTexts) :
        \E search \in (IF Started THEN Range(last.search) ELSE FnSearches) :
            task1(search, data)

FnCall2 ==
    \E data \in (IF Started THEN {last.data} ELSE FnTexts) :
        \E search_list \in (IF Started THEN {last.search}
                            ELSE Lists(FnSearches, MaxQueries)) :
            task2(search_list, data)

NextFn == FnCall1 \/ FnCall2

SpecFn == Init /\ [][NextFn]_vars

(***************************************************************************)
(* Properties                                                              *)
(***************************************************************************)
\* the table the last call worked on, when its text is in the cache
Parsed == last.data \in DOMAIN _cache

LastRows == _cache[last.data]

NonEmptyTable == Parsed /\ LastRows # <<>>

\* a row matches a query: every key column equals str() of the query's value
Matches(row, q) ==
    \A key \in DOMAIN row \ {VALUE} :
        key \in DOMAIN q /\ row[key] = Str(q[key])

MatchingRows(rows, q) == {k \in 1..Len(rows) : Matches(rows[k], q)}

\* the first matching row in source order, 0 when there is none
FirstMatch(rows, q) ==
    IF MatchingRows(rows, q) = {} THEN 0
    ELSE CHOOSE k \in MatchingRows(rows, q) :
            \A j \in MatchingRows(rows, q) : k <= j

SchemaMatching(q) == DOMAIN q = DOMAIN LastRows[1] \ {VALUE}

\* C1: on a non-empty table and a query whose key set is the table's columns
\* minus 'value', task1 returns the 'value' field of the first row in source
\* order whose key columns all equal str() of the query's values, and '-1'
\* when no row matches.
C1_LookupFirstMatch ==
    (last.op = "task1" /\ NonEmptyTable /\ SchemaMatching(last.search[1])) =>
        LET k == FirstMatch(LastRows, last.search[1])
        IN last.out = IF k = 0 THEN Ret(NOT_FOUND)
                      ELSE Ret(LastRows[k][VALUE])

\* two rows share the query's key values, carry different values, and the
\* first one's value is returned
C1_Witness ==
    /\ last.op = "task1" /\ NonEmptyTable /\ SchemaMatching(last.search[1])
    /\ \E j, k \in MatchingRows(LastRows, last.search[1]) :
          /\ j < k
          /\ LastRows[j][VALUE] # LastRows[k][VALUE]
          /\ j = FirstMatch(LastRows, last.search[1])
          /\ last.out = Ret(LastRows[j][VALUE])

\* C2: on a non-empty table, a task1 call whose query key set differs from
\* the table's non-'value' columns (a key missing or an extra key) raises
\* the Key-Mismatch error and returns nothing.
C2_KeyMismatchRaises ==
    (last.op = "task1" /\ NonEmptyTable /\ ~SchemaMatching(last.search[1])) =>
        last.out = Raise("Key mismatch")

\* a query that lacks a key column of a non-empty table was rejected
C2_Witness ==
    /\ last.op = "task1" /\ NonEmptyTable
    /\ (DOMAIN LastRows[1] \ {VALUE}) \ DOMAIN last.search[1] # {}
    /\ last.out = Raise("Key mismatch")

\* C7: when the text parses to zero data rows, task1 returns '-1' and task2
\* returns '0.0' for every query or query list, whatever the queries' keys.
C7_EmptyTable ==
    (Started /\ Parsed /\ LastRows = <<>>) =>
        last.out = IF last.op = "task1" THEN Ret(NOT_FOUND) ELSE Ret(ZERO)

\* task1 on a header-only text (a,value) with a query that has no key a
C7_Witness ==
    /\ last.op = "task1" /\ Parsed /\ LastRows = <<>>
    /\ last.data # <<>> /\ Head(last.data) = HeaderA
    /\ A \notin DOMAIN last.search[1]
    /\ last.out = Ret(NOT_FOUND)

\* C3 as stated: the parser runs at most once for each distinct table text.
C3_ParsedAtMostOnce == \A d \in DOMAIN parses : parses[d] <= 1

\* C3 amended: the parser runs exactly once for each text whose parse
\* succeeded, however many calls of either function used it since and
\* however they ended; only a text whose parse raises is parsed again.
C3_CachedParsedOnce ==
    /\ \A d \in DOMAIN _cache : ParseCount(d) = 1
    /\ \A d \in DOMAIN parses \ DOMAIN _cache :
          ParseText(d).exc # "" /\ parses[d] <= MaxParses
    /\ (Started /\ ~last.hit) => ParseCount(last.data) >= 1

\* a call found its text in the cache, ended in an error, and the parser
\* has run once on that text
C3_Witness ==
    /\ Started /\ last.hit /\ last.out.exc # ""
    /\ ParseCount(last.data) = 1

\* C10: a text that is a key of the cache stays a key and keeps the same
\* rows through every later call of task1 and task2.
C10_CacheFrozen ==
    [][\A d \in DOMAIN _cache :
          d \in DOMAIN _cache' /\ _cache'[d] = _cache[d]]_vars

\* three texts are cached and the last call, on a fourth text, raised
C10_Witness ==
    /\ Cardinality(DOMAIN _cache) = 3
    /\ Started /\ ~Parsed /\ last.out.exc # ""

HasLong(data) ==
    data # <<>> /\ \E k \in 2..Len(data) : Len(data[k]) > Len(data[1])

\* some non-blank data record has fewer fields than the header
HasShort(data) ==
    data # <<>> /\ \E k \in 2..Len(data) :
                      data[k] # <<>> /\ Len(data[k]) < Len(data[1])

\* C8 as stated: a data row with fewer or with more fields than the header
\* makes the call fail in parsing and leaves no cache entry for the text.
C8_BadCountFails ==
    (Started /\ (HasLong(last.data) \/ HasShort(last.data))) =>
        (last.out = Raise("AttributeError") /\ ~Parsed)

\* C8 amended: a data row with more fields than the header makes task1 and
\* task2 raise in parsing, with no result and no cache entry; a row with
\* fewer fields does not: its missing fields are None and the table is cached.
C8_LongFailsShortParses ==
    Started =>
        /\ HasLong(last.data) =>
              (last.out = Raise("AttributeError") /\ ~Parsed)
        /\ (HasShort(last.data) /\ ~HasLong(last.data)) =>
              /\ Parsed /\ last.out.exc # "AttributeError"
              /\ \E k \in 1..Len(LastRows) : LastRows[k][VALUE] = None

\* task2 raised in parsing a text with a long record, a second time
C8_Witness ==
    /\ last.op = "task2" /\ HasLong(last.data)
    /\ last.out = Raise("AttributeError") /\ ~Parsed
    /\ ParseCount(last.data) = 2

\* n is even, n is the double of an integer
Even(n) == \E m \in -(n * n)..(n * n) : n = 2 * m

\* the queries of the last task2 call that have a matching row
Hits == {j \in 1..Len(last.search) : FirstMatch(LastRows, last.search[j]) # 0}

\* the integer value of the first matching row of query j
HitValue(j) == PyInt(LastRows[FirstMatch(LastRows, last.search[j])][VALUE]).n

HitWeight(j) == IF Even(HitValue(j)) THEN 20 ELSE 10

RECURSIVE SumOver(_, _)
SumOver(S, f) ==
    IF S = {} THEN 0
    ELSE LET j == CHOOSE x \in S : TRUE
         IN f[j] + SumOver(S \ {j}, f)

\* s is a decimal numeral with exactly one digit after the point
IsOneDecimal(s) ==
    /\ Len(s) >= 3 /\ s[Len(s) - 1] = "." /\ IsDigit(s[Len(s)])
    /\ LET ip   == SubSeq(s, 1, Len(s) - 2)
           body == IF Head(ip) = "-" THEN Tail(ip) ELSE ip
       IN body # <<>> /\ \A k \in 1..Len(body) : IsDigit(body[k])

\* ten times the number that such a numeral denotes
Tenths(s) ==
    LET ip   == SubSeq(s, 1, Len(s) - 2)
        body == IF Head(ip) = "-" THEN Tail(ip) ELSE ip
        m    == 10 * BodyValue(body, 0) + DigitValue(s[Len(s)])
    IN IF Head(ip) = "-" THEN -m ELSE m

Abs(n) == IF n < 0 THEN -n ELSE n

IntegerTable ==
    \A k \in 1..Len(LastRows) : PyInt(LastRows[k][VALUE]).exc = ""

C6_NoKeyError ==
    (last.op = "task2" /\ NonEmptyTable) =>
        last.out.exc \notin {"KeyError", "Key mismatch"}

\* C9: task2 ends in a Value-Format error exactly when the first matching
\* row of some query has a 'value' field that int() does not accept.
C9_ValueFormatExactly ==
    (last.op = "task2" /\ NonEmptyTable) =>
        (last.out.exc \in {"ValueError", "TypeError"}
            <=> \E j \in Hits :
                   PyInt(LastRows[FirstMatch(LastRows, last.search[j])][VALUE]).exc
                       # "")

====
